---- MODULE Spec2Model ----
(***************************************************************************)
(* A model of GuideCX.py (the HEAD side of the merge markers left in the   *)
(* file): the client object, its fifteen public operations, the draft-04   *)
(* JSON-schema validation each schema-carrying operation runs on its       *)
(* keyword arguments, and the requests handed to the HTTP transport.       *)
(*                                                                         *)
(* Python values are tagged records [t, v]: t is the Python type and v the *)
(* payload.  Strings are TLA+ strings; their characters are read with      *)
(* SubSeq, so the regular expressions of the schemas are matched           *)
(* character by character.                                                 *)
(***************************************************************************)
EXTENDS Integers, Sequences, FiniteSets, TLC

VARIABLES KEY, HOST, head, op, args, events, sent, result

vars == <<KEY, HOST, head, op, args, events, sent, result>>

(***************************************************************************)
(* Python values.                                                          *)
(***************************************************************************)
Str(s) == [t |-> "str", v |-> s]
Num(n) == [t |-> "num", v |-> n]
Bool(b) == [t |-> "bool", v |-> b]
Arr(items) == [t |-> "arr", v |-> items]
Obj(f) == [t |-> "obj", v |-> f]
None == [t |-> "none", v |-> 0]

\* The empty dict {} (kwargs of a call with no keyword argument).
EmptyBag == [k \in {} |-> None]

\* bool(v): the truth value Python's `if v:` tests.
Truthy(val) ==
    CASE val.t = "none" -> FALSE
      [] val.t = "bool" -> val.v
      [] val.t = "num" -> val.v # 0
      [] val.t = "str" -> val.v # ""
      [] val.t = "arr" -> Len(val.v) > 0
      [] OTHER -> DOMAIN val.v # {}

\* str(v) as an f-string placeholder renders it (the entity ids of the paths).
Format(val) ==
    CASE val.t = "str" -> val.v
      [] val.t = "none" -> "None"
      [] val.t = "bool" -> (IF val.v THEN "True" ELSE "False")
      [] OTHER -> "?"

(***************************************************************************)
(* Regular expressions of the schemas, as re.search applies them: ^ pins   *)
(* the match to the first character, $ matches at the end of the string or *)
(* just before one trailing newline, and a pattern without $ is satisfied  *)
(* by a matching prefix.                                                   *)
(***************************************************************************)
Char(s, i) == SubSeq(s, i, i)

Digits == {"0", "1", "2", "3", "4", "5", "6", "7", "8", "9"}

Letters ==
    {"a", "b", "c", "d", "e", "f", "g", "h", "i", "j", "k", "l", "m",
     "n", "o", "p", "q", "r", "s", "t", "u", "v", "w", "x", "y", "z",
     "A", "B", "C", "D", "E", "F", "G", "H", "I", "J", "K", "L", "M",
     "N", "O", "P", "Q", "R", "S", "T", "U", "V", "W", "X", "Y", "Z"}

\* The characters \S does not match.
Whitespace == {" ", "\t", "\n", "\r", "\f"}

\* Where $ can match: the end, or before a newline that ends the string.
EndPositions(s) ==
    {Len(s)} \cup (IF Len(s) > 0 /\ Char(s, Len(s)) = "\n" THEN {Len(s) - 1} ELSE {})

EmailPattern == "^\\S+@\\S+$"
DatePattern == "^\\d{4}\\-(0?[1-9]|1[012])\\-(0?[1-9]|[12][0-9]|3[01])$"
DomainPattern == "^((?!-)[A-Za-z0-9-]{1,63}(?<!-)\\.)+[A-Za-z]{2,6}"

\* ^\S+@\S+$
EmailSearch(s) ==
    \E e \in EndPositions(s) : \E i \in 2..(e - 1) :
        /\ Char(s, i) = "@"
        /\ \A k \in 1..(i - 1) : Char(s, k) \notin Whitespace
        /\ \A k \in (i + 1)..e : Char(s, k) \notin Whitespace

\* (0?[1-9]|1[012])
MonthMatch(m) ==
    \/ Len(m) = 1 /\ m \in Digits \ {"0"}
    \/ Len(m) = 2 /\ Char(m, 1) = "0" /\ Char(m, 2) \in Digits \ {"0"}
    \/ Len(m) = 2 /\ Char(m, 1) = "1" /\ Char(m, 2) \in {"0", "1", "2"}

\* (0?[1-9]|[12][0-9]|3[01])
DayMatch(d) ==
    \/ Len(d) = 1 /\ d \in Digits \ {"0"}
    \/ Len(d) = 2 /\ Char(d, 1) = "0" /\ Char(d, 2) \in Digits \ {"0"}
    \/ Len(d) = 2 /\ Char(d, 1) \in {"1", "2"} /\ Char(d, 2) \in Digits
    \/ Len(d) = 2 /\ Char(d, 1) = "3" /\ Char(d, 2) \in {"0", "1"}

\* ^\d{4}\-(month)\-(day)$
DateSearch(s) ==
    \E e \in EndPositions(s) : \E j \in 7..(e - 1) :
        /\ \A k \in 1..4 : Char(s, k) \in Digits
        /\ Char(s, 5) = "-"
        /\ MonthMatch(SubSeq(s, 6, j - 1))
        /\ Char(s, j) = "-"
        /\ DayMatch(SubSeq(s, j + 1, e))

MaxLabelLen == 63
MinTldLen == 2

\* [A-Za-z0-9-]
LabelChars == Letters \cup Digits \cup {"-"}

\* [A-Za-z]{2,6} somewhere at position i: two letters are enough to match.
TldAt(s, i) ==
    /\ i + MinTldLen - 1 <= Len(s)
    /\ \A k \in i..(i + MinTldLen - 1) : Char(s, k) \in Letters

\* ((?!-)[A-Za-z0-9-]{1,63}(?<!-)\.)+ from position i, then the letters.
RECURSIVE LabelsAt(_, _)
LabelsAt(s, i) ==
    \E j \in (i + 1)..Len(s) :
        /\ j - i <= MaxLabelLen
        /\ Char(s, j) = "."
        /\ \A k \in i..(j - 1) : Char(s, k) \in LabelChars
        /\ Char(s, i) # "-"
        /\ Char(s, j - 1) # "-"
        /\ (TldAt(s, j + 1) \/ LabelsAt(s, j + 1))

DomainSearch(s) == LabelsAt(s, 1)

\* re.search(pattern, s) is not None
Search(pattern, s) ==
    CASE pattern = EmailPattern -> EmailSearch(s)
      [] pattern = DatePattern -> DateSearch(s)
      [] pattern = DomainPattern -> DomainSearch(s)

(***************************************************************************)
(* jsonschema.validate under the draft-04 meta-schema the schemas name.    *)
(* A schema is a record holding the keywords it uses; `properties` is the  *)
(* sequence of <<name, subschema>> in the order the source lists them.     *)
(* Errors collects what iter_errors yields, keyword by keyword; a keyword  *)
(* that does not apply to the instance's type yields nothing.              *)
(***************************************************************************)
TypeOf(val) ==
    CASE val.t = "str" -> "string"
      [] val.t = "num" -> "number"
      [] val.t = "bool" -> "boolean"
      [] val.t = "arr" -> "array"
      [] val.t = "obj" -> "object"
      [] OTHER -> "null"

Violation(kind, field, keys) == [kind |-> kind, field |-> field, keys |-> keys]

PropNames(props) == {props[i][1] : i \in DOMAIN props}

\* The top-level argument an error found below it belongs to.
ChildField(field, name) == IF field = "" THEN name ELSE field

TypeErrors(schema, inst, field) ==
    IF "type" \in DOMAIN schema /\ TypeOf(inst) # schema.type
    THEN <<Violation("type", field, {})>>
    ELSE <<>>

AdditionalPropertiesErrors(schema, inst, field) ==
    IF /\ "additionalProperties" \in DOMAIN schema
       /\ schema.additionalProperties = FALSE
       /\ inst.t = "obj"
    THEN LET known == IF "properties" \in DOMAIN schema
                      THEN PropNames(schema.properties) ELSE {}
             extras == DOMAIN inst.v \ known
         IN IF extras # {}
            THEN <<Violation("additionalProperties", field, extras)>>
            ELSE <<>>
    ELSE <<>>

RECURSIVE RequiredErrors(_, _, _, _)
RequiredErrors(required, inst, field, i) ==
    IF i > Len(required) THEN <<>>
    ELSE (IF required[i] \in DOMAIN inst.v THEN <<>>
          ELSE <<Violation("required", field, {required[i]})>>)
         \o RequiredErrors(required, inst, field, i + 1)

MinimumErrors(schema, inst, field) ==
    IF "minimum" \in DOMAIN schema /\ inst.t = "num" /\ inst.v < schema.minimum
    THEN <<Violation("minimum", field, {})>>
    ELSE <<>>

MaximumErrors(schema, inst, field) ==
    IF "maximum" \in DOMAIN schema /\ inst.t = "num"
    THEN LET exclusive == /\ "exclusiveMaximum" \in DOMAIN schema
                          /\ schema.exclusiveMaximum
             failed == IF exclusive THEN inst.v >= schema.maximum
                       ELSE inst.v > schema.maximum
         IN IF failed THEN <<Violation("maximum", field, {})>> ELSE <<>>
    ELSE <<>>

PatternErrors(schema, inst, field) ==
    IF "pattern" \in DOMAIN schema /\ inst.t = "str" /\ ~Search(schema.pattern, inst.v)
    THEN <<Violation("pattern", field, {})>>
    ELSE <<>>

EnumErrors(schema, inst, field) ==
    IF "enum" \in DOMAIN schema /\ ~(inst.t = "str" /\ inst.v \in schema.enum)
    THEN <<Violation("enum", field, {})>>
    ELSE <<>>

UniqueItemsErrors(schema, inst, field) ==
    IF /\ "uniqueItems" \in DOMAIN schema
       /\ schema.uniqueItems
       /\ inst.t = "arr"
       /\ \E i, j \in DOMAIN inst.v : i < j /\ inst.v[i] = inst.v[j]
    THEN <<Violation("uniqueItems", field, {})>>
    ELSE <<>>

MinItemsErrors(schema, inst, field) ==
    IF "minItems" \in DOMAIN schema /\ inst.t = "arr" /\ Len(inst.v) < schema.minItems
    THEN <<Violation("minItems", field, {})>>
    ELSE <<>>

RECURSIVE Errors(_, _, _)
RECURSIVE PropertiesErrors(_, _, _, _)
RECURSIVE ItemsErrors(_, _, _, _)

\* properties: each listed property the instance holds, against its subschema.
PropertiesErrors(props, inst, field, i) ==
    IF i > Len(props) THEN <<>>
    ELSE (IF props[i][1] \in DOMAIN inst.v
          THEN Errors(props[i][2], inst.v[props[i][1]], ChildField(field, props[i][1]))
          ELSE <<>>)
         \o PropertiesErrors(props, inst, field, i + 1)

\* items: every item of the array, against the one item schema.
ItemsErrors(itemSchema, items, field, i) ==
    IF i > Len(items) THEN <<>>
    ELSE Errors(itemSchema, items[i], field) \o ItemsErrors(itemSchema, items, field, i + 1)

Errors(schema, inst, field) ==
    TypeErrors(schema, inst, field)
    \o AdditionalPropertiesErrors(schema, inst, field)
    \o (IF "properties" \in DOMAIN schema /\ inst.t = "obj"
        THEN PropertiesErrors(schema.properties, inst, field, 1) ELSE <<>>)
    \o (IF "required" \in DOMAIN schema /\ inst.t = "obj"
        THEN RequiredErrors(schema.required, inst, field, 1) ELSE <<>>)
    \o MinimumErrors(schema, inst, field)
    \o MaximumErrors(schema, inst, field)
    \o PatternErrors(schema, inst, field)
    \o EnumErrors(schema, inst, field)
    \o UniqueItemsErrors(schema, inst, field)
    \o MinItemsErrors(schema, inst, field)
    \o (IF "items" \in DOMAIN schema /\ inst.t = "arr"
        THEN ItemsErrors(schema.items, inst.v, field, 1) ELSE <<>>)

\* validate(schema=..., instance=kwargs): the errors of the keyword-argument dict.
Validate(schema, bag) == Errors(schema, Obj(bag), "")

(***************************************************************************)
(* The four schemas, keyword for keyword as the source writes them.        *)
(***************************************************************************)
\* Variant: the schema requires nothing.
ProjectRequired_None == <<>>

\* "required": ["name"] of createPendingProject's SCHEMA
ProjectRequired == <<"name">>

\* SCHEMA of createPendingProject
ProjectSchema ==
    [type |-> "object",
     additionalProperties |-> FALSE,
     properties |-> <<
        <<"name", [type |-> "string"]>>,
        <<"cashValue", [type |-> "number", minimum |-> 0]>>,
        <<"domain", [type |-> "string", pattern |-> DomainPattern]>>,
        <<"externalId", [type |-> "string"]>>,
        <<"projectManagerEmail", [type |-> "string", pattern |-> EmailPattern]>>,
        <<"referringObjectId", [type |-> "string"]>>,
        <<"startOn", [type |-> "string", pattern |-> DatePattern]>>,
        <<"endOn", [type |-> "string", pattern |-> DatePattern]>>,
        <<"templateSkus", [type |-> "array", minItems |-> 1,
                           items |-> [type |-> "string"]]>>,
        <<"templateExecution", [type |-> "string",
                                enum |-> {"sequential", "parallel"}]>>,
        <<"customerUsers",
          [type |-> "array", uniqueItems |-> TRUE, minItems |-> 1,
           items |-> [type |-> "object",
                      additionalProperties |-> FALSE,
                      properties |-> <<
                          <<"firstName", [type |-> "string"]>>,
                          <<"lastName", [type |-> "string"]>>,
                          <<"email", [type |-> "string"]>> >>]]>>,
        <<"customFields",
          [type |-> "array", uniqueItems |-> TRUE, minItems |-> 1,
           items |-> [type |-> "object",
                      additionalProperties |-> FALSE,
                      properties |-> <<
                          <<"customFieldId", [type |-> "string"]>>,
                          <<"value", [type |-> "string"]>> >>,
                      required |-> <<"customFieldId", "value">>]]>> >>,
     required |-> ProjectRequired]

\* Variant: the maximum is inclusive (no exclusiveMaximum keyword).
LimitSchema_Inclusive == [type |-> "number", minimum |-> 0, maximum |-> 50]

\* The limit property of the two task filters.
LimitSchema ==
    [type |-> "number", minimum |-> 0, maximum |-> 50, exclusiveMaximum |-> TRUE]

\* SCHEMA of getTasksByProject: every array needs at least one item.
TasksByProjectSchema ==
    [type |-> "object",
     properties |-> <<
        <<"assigneeEmail", [type |-> "array", minItems |-> 1,
                            items |-> [type |-> "string", pattern |-> EmailPattern]]>>,
        <<"status", [type |-> "array", minItems |-> 1,
                     items |-> [enum |-> {"not_started", "working_on_it", "stuck",
                                          "sign_off", "done", "not_applicable",
                                          "not_scheduled", "scheduled"}]]>>,
        <<"projectStatus", [type |-> "array", minItems |-> 1,
                            items |-> [enum |-> {"on_hold", "on_time", "done", "late"}]]>>,
        <<"type", [type |-> "array", minItems |-> 1,
                   items |-> [enum |-> {"regular", "event", "grouped"}]]>>,
        <<"responsibility", [type |-> "array", minItems |-> 1,
                             items |-> [enum |-> {"internal", "third_party", "customer"}]]>>,
        <<"priority", [type |-> "array", minItems |-> 1,
                       items |-> [type |-> "string",
                                  enum |-> {"low", "medium", "high"}]]>>,
        <<"limit", LimitSchema>>,
        <<"offset", [type |-> "number", minimum |-> 0]>> >>]

\* Variant: getTasks requires at least one item in every array too.
TasksSchema_MinItems == TasksByProjectSchema

\* SCHEMA of getTasks: the same properties, no minItems.
TasksSchema ==
    [type |-> "object",
     properties |-> <<
        <<"assigneeEmail", [type |-> "array",
                            items |-> [type |-> "string", pattern |-> EmailPattern]]>>,
        <<"status", [type |-> "array",
                     items |-> [enum |-> {"not_started", "working_on_it", "stuck",
                                          "sign_off", "done", "not_applicable",
                                          "not_scheduled", "scheduled"}]]>>,
        <<"projectStatus", [type |-> "array",
                            items |-> [enum |-> {"on_hold", "on_time", "done", "late"}]]>>,
        <<"type", [type |-> "array",
                   items |-> [enum |-> {"regular", "event", "grouped"}]]>>,
        <<"responsibility", [type |-> "array",
                             items |-> [enum |-> {"internal", "third_party", "customer"}]]>>,
        <<"priority", [type |-> "array",
                       items |-> [type |-> "string",
                                  enum |-> {"low", "medium", "high"}]]>>,
        <<"limit", LimitSchema>>,
        <<"offset", [type |-> "number", minimum |-> 0]>> >>]

\* The status property of TASK_SCHEMA: an enum with no type keyword.
TaskStatusSchema ==
    [enum |-> {"not_started", "working_on_it", "stuck", "sign_off", "done",
               "not_applicable", "not_scheduled", "scheduled"}]

\* Variant: TASK_SCHEMA without additionalProperties, so unknown names pass.
TASK_SCHEMA_Open ==
    [type |-> "object",
     properties |-> <<
        <<"name", [type |-> "string"]>>,
        <<"description", [type |-> "string"]>>,
        <<"assigneeEmail", [type |-> "string", pattern |-> EmailPattern]>>,
        <<"startOn", [type |-> "string", pattern |-> DatePattern]>>,
        <<"dueOn", [type |-> "string", pattern |-> DatePattern]>>,
        <<"status", TaskStatusSchema>> >>]

\* TASK_SCHEMA of updateTask
TASK_SCHEMA ==
    [type |-> "object",
     additionalProperties |-> FALSE,
     properties |-> <<
        <<"name", [type |-> "string"]>>,
        <<"description", [type |-> "string"]>>,
        <<"assigneeEmail", [type |-> "string", pattern |-> EmailPattern]>>,
        <<"startOn", [type |-> "string", pattern |-> DatePattern]>>,
        <<"dueOn", [type |-> "string", pattern |-> DatePattern]>>,
        <<"status", TaskStatusSchema>> >>]

\* Variant: a status set that lost its last member.
VALID_STATUS_Short ==
    {"not_started", "working_on_it", "stuck", "sign_off", "done",
     "not_applicable", "not_scheduled"}

\* VALID_STATUS of updateTaskStatus
VALID_STATUS ==
    {"not_started", "working_on_it", "stuck", "sign_off", "done",
     "not_applicable", "not_scheduled", "scheduled"}

(***************************************************************************)
(* The transport and what a call leaves behind.  A call's outcome is the   *)
(* record [events, sent, result]: its steps in order (a validation pass,   *)
(* a request, the transport's answer or failure), the requests it handed   *)
(* to the requests library, and the value it returned or the exception it  *)
(* raised.                                                                 *)
(***************************************************************************)
Request(method, url, headers, params, json) ==
    [method |-> method, url |-> url, headers |-> headers,
     params |-> params, json |-> json]

Returned(value) == [kind |-> "return", value |-> value, violations |-> <<>>]

Raised(kind, message) == [kind |-> kind, value |-> message, violations |-> <<>>]

\* The query string requests builds from params: a None value is dropped, a
\* list gives one key=value per item (none when empty), anything else one.
QueryOf(params) ==
    IF params.t # "obj" THEN EmptyBag
    ELSE [k \in {n \in DOMAIN params.v :
                   /\ params.v[n].t # "none"
                   /\ ~(params.v[n].t = "arr" /\ Len(params.v[n].v) = 0)}
            |-> IF params.v[k].t = "arr" THEN params.v[k].v ELSE <<params.v[k]>>]

\* What the transport does with one request: a JSON answer, or an exception.
TransportOutcomes == {"ok", "fail"}

TransportResult(resp) ==
    IF resp = "ok" THEN Returned(Obj("id" :> Str("r1")))
    ELSE Raised("TransportError", None)

\* Variant: the request goes out with a header that lost the token.
Call_NoToken(method, url, headers, params, json, resp) ==
    [events |-> <<"request", IF resp = "ok" THEN "response" ELSE "failure">>,
     sent |-> <<Request(method, url, [Authorization |-> "Bearer "], params, json)>>,
     result |-> TransportResult(resp)]

\* Variant: a failed request is sent a second time.
Call_Retry(method, url, headers, params, json, resp) ==
    IF resp = "ok"
    THEN [events |-> <<"request", "response">>,
          sent |-> <<Request(method, url, headers, params, json)>>,
          result |-> TransportResult(resp)]
    ELSE [events |-> <<"request", "failure", "request", "failure">>,
          sent |-> <<Request(method, url, headers, params, json),
                     Request(method, url, headers, params, json)>>,
          result |-> TransportResult(resp)]

\* requests.<method>(url, ...).json(): one request, then its answer is returned
\* or its failure propagates.
Call(method, url, headers, params, json, resp) ==
    [events |-> <<"request", IF resp = "ok" THEN "response" ELSE "failure">>,
     sent |-> <<Request(method, url, headers, params, json)>>,
     result |-> TransportResult(resp)]

\* A call that ends in an exception before any request is made.
Fail(evs, exception) == [events |-> evs, sent |-> <<>>, result |-> exception]

\* Variant: the exception carries the validator's errors.
RaiseInvalid_WithViolations(errs) ==
    [kind |-> "ValueError", value |-> Str("Invalid argument(s)!"), violations |-> errs]

\* except: raise ValueError('Invalid argument(s)!')
RaiseInvalid(errs) == Raised("ValueError", Str("Invalid argument(s)!"))

\* Variant: the request is made whatever the validator found.
Validated_SendsAnyway(schema, bag, call) ==
    [events |-> <<"validate">> \o call.events,
     sent |-> call.sent,
     result |-> IF Len(Validate(schema, bag)) > 0
                THEN Raised("ValueError", Str("Invalid argument(s)!"))
                ELSE call.result]

\* try: validate(...) except: raise ValueError(...); then the request.
Validated(schema, bag, call) ==
    LET errs == Validate(schema, bag)
    IN IF Len(errs) > 0
       THEN Fail(<<"validate">>, RaiseInvalid(errs))
       ELSE [events |-> <<"validate">> \o call.events,
             sent |-> call.sent,
             result |-> call.result]

(***************************************************************************)
(* The operations, each a function of the client (self), its arguments     *)
(* and the transport's answer.                                             *)
(***************************************************************************)
getMilestone(self, milestoneID, resp) ==
    Call("GET", self.HOST \o "/milestones/" \o Format(milestoneID),
         self.head, None, None, resp)

getMilestonesByProject(self, projectID, resp) ==
    Call("GET", self.HOST \o "/projects/" \o Format(projectID) \o "/milestones",
         self.head, None, None, resp)

\* def Note(text, userEmail, internalOnly=False), called with the positional
\* arguments posargs: two or three bind, any other count is a TypeError.
Note(posargs) ==
    IF Len(posargs) \in 2..3
    THEN [raised |-> FALSE,
          value |-> ("text" :> posargs[1]) @@ ("userEmail" :> posargs[2])
                    @@ ("internalOnly" :>
                          IF Len(posargs) = 3 THEN posargs[3] ELSE Bool(FALSE))]
    ELSE [raised |-> TRUE, value |-> EmptyBag]

getNote(self, noteID, resp) ==
    Call("GET", self.HOST \o "/notes/" \o Format(noteID),
         self.head, None, None, resp)

\* self.Note(text, userEmail, internalOnly) passes self as the first positional.
createNoteToProject(self, projectID, text, userEmail, internalOnly, resp) ==
    LET body == Note(<<self, text, userEmail, internalOnly>>)
    IN IF body.raised THEN Fail(<<>>, Raised("TypeError", None))
       ELSE Call("POST", self.HOST \o "/projects/" \o Format(projectID) \o "/notes",
                 self.head, None, Obj(body.value), resp)

getNotesFromProject(self, projectID, resp) ==
    Call("GET", self.HOST \o "/projects/" \o Format(projectID) \o "/notes",
         self.head, None, None, resp)

createNoteToTask(self, taskID, text, userEmail, internalOnly, resp) ==
    LET body == Note(<<self, text, userEmail, internalOnly>>)
    IN IF body.raised THEN Fail(<<>>, Raised("TypeError", None))
       ELSE Call("POST", self.HOST \o "/tasks/" \o Format(taskID) \o "/notes",
                 self.head, None, Obj(body.value), resp)

createPendingProject(self, kwargs, resp) ==
    Validated(ProjectSchema, kwargs,
              Call("POST", self.HOST \o "/projects", self.head, None, Obj(kwargs), resp))

\* Variant: every argument goes into the query, set or not.
getProjects_NoElision(self, limit, offset, customerName, projectName, projectManagerEmail, resp) ==
    Call("GET", self.HOST \o "/projects", self.head,
         Obj(("limit" :> limit) @@ ("offset" :> offset)
             @@ ("customerName" :> customerName) @@ ("projectName" :> projectName)
             @@ ("projectManagerEmail" :> projectManagerEmail)),
         None, resp)

\* Variant: limit is checked against the task filters' limit schema first.
getProjects_Validated(self, limit, offset, customerName, projectName, projectManagerEmail, resp) ==
    Validated([type |-> "object", properties |-> <<
                   <<"limit", [type |-> "number", minimum |-> 0, maximum |-> 50,
                               exclusiveMaximum |-> TRUE]>> >>],
              "limit" :> limit,
              Call("GET", self.HOST \o "/projects", self.head,
                   Obj(("limit" :> limit) @@ ("offset" :> offset)), None, resp))

getProjects(self, limit, offset, customerName, projectName, projectManagerEmail, resp) ==
    LET queryStrings ==
            ("limit" :> limit) @@ ("offset" :> offset)
            @@ (IF Truthy(customerName)
                THEN "customerName" :> customerName ELSE EmptyBag)
            @@ (IF Truthy(projectName)
                THEN "projectName" :> projectName ELSE EmptyBag)
            @@ (IF Truthy(projectManagerEmail)
                THEN "projectManagerEmail" :> projectManagerEmail ELSE EmptyBag)
    IN Call("GET", self.HOST \o "/projects", self.head, Obj(queryStrings), None, resp)

getProject(self, projectID, resp) ==
    Call("GET", self.HOST \o "/projects/" \o Format(projectID),
         self.head, None, None, resp)

addCusFieldToProject(self, projectID, customFieldId, value, resp) ==
    Call("POST", self.HOST \o "/projects/" \o Format(projectID) \o "/custom-fields",
         self.head, None,
         Obj(("customFieldId" :> customFieldId) @@ ("value" :> value)), resp)

\* Variant: a None id is refused before the request.
getTask_ChecksId(self, taskID, resp) ==
    IF taskID.t = "none" THEN Fail(<<>>, Raised("MissingPathParameter", None))
    ELSE Call("GET", self.HOST \o "/tasks/" \o Format(taskID), self.head, None, None, resp)

getTask(self, taskID, resp) ==
    Call("GET", self.HOST \o "/tasks/" \o Format(taskID), self.head, None, None, resp)

getTasksByProject(self, projectID, kwargs, resp) ==
    Validated(TasksByProjectSchema, kwargs,
              Call("GET", self.HOST \o "/projects/" \o Format(projectID) \o "/tasks",
                   self.head, Obj(kwargs), None, resp))

getTasks(self, kwargs, resp) ==
    Validated(TasksSchema, kwargs,
              Call("GET", self.HOST \o "/tasks", self.head, Obj(kwargs), None, resp))

\* Variant: the task id is sent in the body as well as in the path.
updateTask_IdInBody(self, taskID, kwargs, resp) ==
    Validated(TASK_SCHEMA, kwargs,
              Call("PATCH", self.HOST \o "/tasks/" \o Format(taskID),
                   self.head, None, Obj(kwargs @@ ("taskID" :> taskID)), resp))

updateTask(self, taskID, kwargs, resp) ==
    Validated(TASK_SCHEMA, kwargs,
              Call("PATCH", self.HOST \o "/tasks/" \o Format(taskID),
                   self.head, None, Obj(kwargs), resp))

\* `status not in VALID_STATUS` hashes status: a list or a dict cannot be hashed.
updateTaskStatus(self, taskID, status, resp) ==
    IF status.t \in {"arr", "obj"} THEN Fail(<<"validate">>, Raised("TypeError", None))
    ELSE IF ~(status.t = "str" /\ status.v \in VALID_STATUS)
    THEN Fail(<<"validate">>, Raised("ValueError", Str("Invalid status!")))
    ELSE LET call == Call("POST", self.HOST \o "/tasks/" \o Format(taskID),
                          self.head, None, Obj("status" :> status), resp)
         IN [events |-> <<"validate">> \o call.events,
             sent |-> call.sent,
             result |-> call.result]

(***************************************************************************)
(* The arguments the callers of the model pass.                            *)
(***************************************************************************)
MaxLimit == 51

Keys == {"k1", "k2"}
Hosts == {"https://h/v1"}

\* Entity ids: a string, or the None of a caller who has none.
Ids == {Str("id1"), None}

\* limit values on both sides of each end of the accepted range.
LimitVals == {-1, 0, 1} \cup (48..MaxLimit)

\* A keyword-argument dict of one entry, and of two.
Bag1(c) == c[1] :> c[2]
Bag2(c, d) == (c[1] :> c[2]) @@ (d[1] :> d[2])

\* The dicts tried for an operation: empty, each candidate <<name, value>>
\* alone, and each two core candidates of different names together.
Bags(core, cand) ==
    {EmptyBag}
    \cup {Bag1(c) : c \in cand}
    \cup {Bag2(q[1], q[2]) : q \in {p \in core \X core : p[1][1] # p[2][1]}}

ProjectCore ==
    {<<"name", Str("Acme Rollout")>>, <<"foo", Str("x")>>,
     <<"cashValue", Num(-1)>>, <<"domain", Str("acme.com")>>,
     <<"domain", Str("acme.com/x")>>, <<"startOn", Str("2023-1-15")>>}

ProjectCand ==
    ProjectCore \cup
    {<<"name", Num(7)>>,
     <<"cashValue", Num(0)>>,
     <<"domain", Str("-acme.com")>>,
     <<"externalId", Str("e1")>>,
     <<"projectManagerEmail", Str("a@b.co")>>, <<"projectManagerEmail", Str("ab.co")>>,
     <<"referringObjectId", Str("r1")>>,
     <<"startOn", Str("2023-1-15x")>>,
     <<"endOn", Str("2021-02-30")>>, <<"endOn", Str("2023-13-01")>>,
     <<"templateSkus", Arr(<<Str("sku")>>)>>, <<"templateSkus", Arr(<<>>)>>,
     <<"templateExecution", Str("parallel")>>, <<"templateExecution", Str("random")>>,
     <<"customerUsers", Arr(<<Obj("firstName" :> Str("Al"))>>)>>,
     <<"customerUsers", Arr(<<Obj("firstName" :> Str("Al")),
                              Obj("firstName" :> Str("Al"))>>)>>,
     <<"customerUsers", Arr(<<Obj("age" :> Num(3))>>)>>,
     <<"customFields", Arr(<<Obj(("customFieldId" :> Str("c1"))
                                 @@ ("value" :> Str("v")))>>)>>,
     <<"customFields", Arr(<<Obj("customFieldId" :> Str("c1"))>>)>>}

FilterCore ==
    {<<"limit", Num(10)>>, <<"limit", Num(50)>>, <<"foo", Str("x")>>,
     <<"status", Arr(<<Str("done")>>)>>, <<"status", Arr(<<>>)>>}

FilterCand ==
    FilterCore \cup
    {<<"limit", Num(n)>> : n \in LimitVals} \cup
    {<<"limit", None>>,
     <<"offset", Num(0)>>, <<"offset", Num(-1)>>, <<"offset", None>>,
     <<"foo", None>>, <<"name", Str("Kickoff")>>,
     <<"assigneeEmail", Arr(<<Str("a@b.co")>>)>>,
     <<"assigneeEmail", Arr(<<Str("ab.co")>>)>>,
     <<"assigneeEmail", Arr(<<>>)>>,
     <<"status", Arr(<<Str("bogus")>>)>>, <<"status", Str("done")>>,
     <<"projectStatus", Arr(<<Str("late")>>)>>, <<"projectStatus", Arr(<<>>)>>,
     <<"type", Arr(<<Str("event")>>)>>, <<"type", Arr(<<>>)>>,
     <<"responsibility", Arr(<<Str("customer")>>)>>, <<"responsibility", Arr(<<>>)>>,
     <<"priority", Arr(<<Str("low"), Str("high")>>)>>,
     <<"priority", Arr(<<Num(1)>>)>>, <<"priority", Arr(<<>>)>>}

TaskCore ==
    {<<"status", Str("done")>>, <<"status", Str("bogus")>>, <<"foo", Str("x")>>,
     <<"startOn", Str("2023-1-15")>>, <<"name", Str("Kickoff")>>}

TaskCand ==
    TaskCore \cup
    {<<"name", Num(1)>>,
     <<"description", Str("d")>>,
     <<"assigneeEmail", Str("a@b.co")>>, <<"assigneeEmail", Str("ab.co")>>,
     <<"assigneeEmail", Str("a@b.co x")>>, <<"assigneeEmail", Str("a@b.co\n")>>,
     <<"startOn", Str("2023-1-15x")>>,
     <<"startOn", Str("2021-02-30")>>, <<"startOn", Num(5)>>,
     <<"dueOn", Str("2023-12-31")>>, <<"dueOn", Str("2023-13-01")>>,
     <<"dueOn", Str("2023-1-15\n")>>,
     <<"status", None>>, <<"status", Arr(<<Str("done")>>)>>,
     <<"foo", None>>, <<"limit", Num(10)>>}

\* status arguments of updateTaskStatus: the members, and values that are not.
StatusVals ==
    {Str("not_started"), Str("working_on_it"), Str("stuck"), Str("sign_off"),
     Str("done"), Str("not_applicable"), Str("not_scheduled"), Str("scheduled"),
     Str("bogus"), Str("Done"), Str(""), None, Arr(<<Str("done")>>)}

(***************************************************************************)
(* The state machine: a client is constructed, then called any number of   *)
(* times; op, args, events, sent and result describe the latest call.      *)
(***************************************************************************)
Init ==
    /\ KEY \in Keys
    /\ HOST \in Hosts
    /\ head = [Authorization |-> "Bearer " \o KEY]
    /\ op = "__init__"
    /\ args = [key |-> KEY, host |-> HOST]
    /\ events = <<>>
    /\ sent = <<>>
    /\ result = Returned(None)

Self == [KEY |-> KEY, HOST |-> HOST, head |-> head]

\* The call `name(a)` ran to its end with outcome out; the client is untouched.
Finish(name, a, out) ==
    /\ op' = name
    /\ args' = a
    /\ events' = out.events
    /\ sent' = out.sent
    /\ result' = out.result
    /\ UNCHANGED <<KEY, HOST, head>>

GetMilestone ==
    \E id \in Ids, resp \in TransportOutcomes :
        Finish("getMilestone", [milestoneID |-> id], getMilestone(Self, id, resp))

GetMilestonesByProject ==
    \E id \in Ids, resp \in TransportOutcomes :
        Finish("getMilestonesByProject", [projectID |-> id],
               getMilestonesByProject(Self, id, resp))

GetNote ==
    \E id \in Ids, resp \in TransportOutcomes :
        Finish("getNote", [noteID |-> id], getNote(Self, id, resp))

\* internalOnly is the caller's value, or the default False when left out.
CreateNoteToProject ==
    \E id \in Ids, given \in BOOLEAN, io \in BOOLEAN, resp \in TransportOutcomes :
        /\ given \/ ~io
        /\ Finish("createNoteToProject",
                  [projectID |-> id, text |-> Str("hello"), userEmail |-> Str("a@b.co"),
                   internalOnlyGiven |-> given, internalOnly |-> Bool(io)],
                  createNoteToProject(Self, id, Str("hello"), Str("a@b.co"),
                                      Bool(io), resp))

GetNotesFromProject ==
    \E id \in Ids, resp \in TransportOutcomes :
        Finish("getNotesFromProject", [projectID |-> id],
               getNotesFromProject(Self, id, resp))

CreateNoteToTask ==
    \E id \in Ids, given \in BOOLEAN, io \in BOOLEAN, resp \in TransportOutcomes :
        /\ given \/ ~io
        /\ Finish("createNoteToTask",
                  [taskID |-> id, text |-> Str("hello"), userEmail |-> Str("a@b.co"),
                   internalOnlyGiven |-> given, internalOnly |-> Bool(io)],
                  createNoteToTask(Self, id, Str("hello"), Str("a@b.co"),
                                   Bool(io), resp))

CreatePendingProject ==
    \E kwargs \in Bags(ProjectCore, ProjectCand), resp \in TransportOutcomes :
        Finish("createPendingProject", [kwargs |-> kwargs],
               createPendingProject(Self, kwargs, resp))

\* limit and offset default to 10 and 0, the three names to None.
GetProjects ==
    \E limit \in {Num(n) : n \in LimitVals} \cup {Num(10), None},
       customerName \in {None, Str(""), Str("Acme")},
       projectManagerEmail \in {None, Str("a@b.co")},
       resp \in TransportOutcomes :
        Finish("getProjects",
               [limit |-> limit, offset |-> Num(0), customerName |-> customerName,
                projectName |-> None, projectManagerEmail |-> projectManagerEmail],
               getProjects(Self, limit, Num(0), customerName, None,
                           projectManagerEmail, resp))

GetProject ==
    \E id \in Ids, resp \in TransportOutcomes :
        Finish("getProject", [projectID |-> id], getProject(Self, id, resp))

AddCusFieldToProject ==
    \E id \in Ids, resp \in TransportOutcomes :
        Finish("addCusFieldToProject",
               [projectID |-> id, customFieldId |-> Str("c1"), value |-> Str("v")],
               addCusFieldToProject(Self, id, Str("c1"), Str("v"), resp))

GetTask ==
    \E id \in Ids, resp \in TransportOutcomes :
        Finish("getTask", [taskID |-> id], getTask(Self, id, resp))

GetTasksByProject ==
    \E id \in Ids, kwargs \in Bags(FilterCore, FilterCand), resp \in TransportOutcomes :
        Finish("getTasksByProject", [projectID |-> id, kwargs |-> kwargs],
               getTasksByProject(Self, id, kwargs, resp))

GetTasks ==
    \E kwargs \in Bags(FilterCore, FilterCand), resp \in TransportOutcomes :
        Finish("getTasks", [kwargs |-> kwargs], getTasks(Self, kwargs, resp))

UpdateTask ==
    \E id \in Ids, kwargs \in Bags(TaskCore, TaskCand), resp \in TransportOutcomes :
        Finish("updateTask", [taskID |-> id, kwargs |-> kwargs],
               updateTask(Self, id, kwargs, resp))

UpdateTaskStatus ==
    \E id \in Ids, status \in StatusVals, resp \in TransportOutcomes :
        Finish("updateTaskStatus", [taskID |-> id, status |-> status],
               updateTaskStatus(Self, id, status, resp))

Next ==
    \/ GetMilestone
    \/ GetMilestonesByProject
    \/ GetNote
    \/ CreateNoteToProject
    \/ GetNotesFromProject
    \/ CreateNoteToTask
    \/ CreatePendingProject
    \/ GetProjects
    \/ GetProject
    \/ AddCusFieldToProject
    \/ GetTask
    \/ GetTasksByProject
    \/ GetTasks
    \/ UpdateTask
    \/ UpdateTaskStatus

Spec == Init /\ [][Next]_vars

(***************************************************************************)
(* Properties.  Each is a predicate on the state a call leaves behind, so  *)
(* as an invariant it speaks of every call of every reachable sequence.    *)
(***************************************************************************)
SchemaOps == {"createPendingProject", "getTasks", "getTasksByProject", "updateTask"}
FilterOps == {"getTasks", "getTasksByProject"}

SchemaOf(o) ==
    CASE o = "createPendingProject" -> ProjectSchema
      [] o = "getTasks" -> TasksSchema
      [] o = "getTasksByProject" -> TasksByProjectSchema
      [] o = "updateTask" -> TASK_SCHEMA

\* What the validator finds in the latest call's keyword arguments.
CallErrors == Validate(SchemaOf(op), args.kwargs)

InvalidArguments == Raised("ValueError", Str("Invalid argument(s)!"))

Restrict(f, S) == [k \in S |-> f[k]]

\* C1: in a schema-validated operation a request is issued only after the
\* call's keyword arguments passed validation; when validation fails the call
\* ends in the invalid-argument error and no request is issued.
C1_ValidatedBeforeSent ==
    op \in SchemaOps =>
        /\ Len(sent) > 0 =>
              /\ Len(CallErrors) = 0
              /\ Len(events) = 3 /\ events[1] = "validate" /\ events[2] = "request"
        /\ Len(CallErrors) > 0 =>
              /\ result = InvalidArguments
              /\ sent = <<>>
              /\ events = <<"validate">>

C1_Witness ==
    /\ op \in SchemaOps
    /\ Len(CallErrors) > 0
    /\ result.kind = "ValueError"
    /\ sent = <<>>

\* C2 as stated: when the keyword arguments break several constraints at
\* once, the failure returned to the caller carries the full ordered list of
\* violations, one per broken constraint.
C2_FailureCarriesAllViolations ==
    (op \in SchemaOps /\ Len(CallErrors) >= 2) =>
        /\ result.kind = "ValueError"
        /\ result.violations = CallErrors

\* C2 as the code has it: when the keyword arguments break several
\* constraints at once, the call fails with the one fixed error
\* ValueError('Invalid argument(s)!'), which carries no violation and names no
\* field, and nothing is sent.
C2_FailureIsOneFixedError ==
    (op \in SchemaOps /\ Len(CallErrors) >= 2) =>
        /\ result.kind = "ValueError"
        /\ result.value = Str("Invalid argument(s)!")
        /\ result.violations = <<>>
        /\ sent = <<>>

C2_Witness ==
    /\ op = "updateTask"
    /\ args.kwargs = ("status" :> Str("bogus")) @@ ("foo" :> Str("x"))
    /\ Len(CallErrors) = 2
    /\ result.kind = "ValueError"

\* C3: in getTasks and getTasksByProject the keyword arguments {limit: n},
\* n an integer, are accepted (a request is sent) exactly when 0 <= n <= 49;
\* every other n is rejected with nothing sent.
C3_LimitRange ==
    (/\ op \in FilterOps
     /\ DOMAIN args.kwargs = {"limit"}
     /\ args.kwargs["limit"].t = "num") =>
        LET n == args.kwargs["limit"].v
        IN IF 0 <= n /\ n <= 49
           THEN Len(sent) = 1 /\ result.kind # "ValueError"
           ELSE result = InvalidArguments /\ sent = <<>>

C3_Witness ==
    /\ op = "getTasksByProject"
    /\ args.kwargs = ("limit" :> Num(50))
    /\ result.kind = "ValueError"
    /\ sent = <<>>

\* C4 as stated: getProjects rejects a limit below 0 or >= 50 as an invalid
\* argument and sends no request.
C4_GetProjectsRejectsLimit ==
    (/\ op = "getProjects"
     /\ args.limit.t = "num"
     /\ (args.limit.v < 0 \/ args.limit.v >= 50)) =>
        /\ result.kind = "ValueError"
        /\ sent = <<>>

\* C4 as the code has it: getProjects validates nothing; whatever the limit,
\* below 0 and 50 or more included, it sends one GET whose query parameters
\* carry that limit, and it never ends in an invalid-argument error.
C4_GetProjectsSendsAnyLimit ==
    op = "getProjects" =>
        /\ Len(events) = 2 /\ events[1] = "request"
        /\ Len(sent) = 1
        /\ sent[1].method = "GET"
        /\ sent[1].url = HOST \o "/projects"
        /\ sent[1].params.v["limit"] = args.limit
        /\ result.kind # "ValueError"

C4_Witness ==
    /\ op = "getProjects"
    /\ args.limit = Num(50)
    /\ Len(sent) = 1
    /\ sent[1].params.v["limit"] = Num(50)

\* C5: a keyword that no task schema knows makes updateTask fail with the
\* invalid-argument error (the validator's additionalProperties error names
\* it) and nothing is sent; added to keyword arguments the task filters
\* accept, it leaves them accepted and the request is sent with it.
C5_UnknownFieldAsymmetry ==
    /\ (op = "updateTask"
        /\ DOMAIN args.kwargs \ PropNames(TASK_SCHEMA.properties) # {}) =>
            /\ result = InvalidArguments
            /\ sent = <<>>
            /\ \E i \in DOMAIN CallErrors :
                  /\ CallErrors[i].kind = "additionalProperties"
                  /\ CallErrors[i].keys =
                        DOMAIN args.kwargs \ PropNames(TASK_SCHEMA.properties)
    /\ (op \in FilterOps
        /\ DOMAIN args.kwargs \ PropNames(SchemaOf(op).properties) # {}) =>
            LET known == DOMAIN args.kwargs \cap PropNames(SchemaOf(op).properties)
                rest == Validate(SchemaOf(op), Restrict(args.kwargs, known))
            IN Len(rest) = 0 =>
                  /\ Len(sent) = 1
                  /\ sent[1].params = Obj(args.kwargs)
                  /\ result.kind # "ValueError"

C5_Witness ==
    /\ op = "updateTask"
    /\ args.kwargs = ("status" :> Str("done")) @@ ("foo" :> Str("x"))
    /\ result.kind = "ValueError"
    /\ sent = <<>>

\* C6: createPendingProject rejects keyword arguments without name (the
\* empty ones included), the validator reporting name and only name as
\* missing; it rejects keyword arguments holding a name outside the schema's
\* properties; and it accepts name alone with a string value.
C6_ProjectRequiresName ==
    op = "createPendingProject" =>
        /\ "name" \notin DOMAIN args.kwargs =>
              /\ result = InvalidArguments
              /\ sent = <<>>
              /\ {CallErrors[i].keys :
                    i \in {j \in DOMAIN CallErrors :
                              /\ CallErrors[j].kind = "required"
                              /\ CallErrors[j].field = ""}}
                 = {{"name"}}
        /\ DOMAIN args.kwargs \ PropNames(ProjectSchema.properties) # {} =>
              /\ result = InvalidArguments
              /\ sent = <<>>
        /\ (DOMAIN args.kwargs = {"name"} /\ args.kwargs["name"].t = "str") =>
              /\ Len(sent) = 1
              /\ result.kind # "ValueError"

C6_Witness ==
    /\ op = "createPendingProject"
    /\ args.kwargs = EmptyBag
    /\ result.kind = "ValueError"
    /\ sent = <<>>

\* C7: whenever createPendingProject (POST /projects) or updateTask
\* (PATCH /tasks/{id}) sends a request, its JSON body is the caller's keyword
\* arguments exactly, and the task id is not in the body.
C7_BodyIsTheBag ==
    (op \in {"createPendingProject", "updateTask"} /\ Len(sent) > 0) =>
        /\ Len(sent) = 1
        /\ sent[1].json = Obj(args.kwargs)
        /\ "taskID" \notin DOMAIN sent[1].json.v
        /\ sent[1].params = None
        /\ op = "createPendingProject" =>
              /\ sent[1].method = "POST"
              /\ sent[1].url = HOST \o "/projects"
        /\ op = "updateTask" =>
              /\ sent[1].method = "PATCH"
              /\ sent[1].url = HOST \o "/tasks/" \o Format(args.taskID)

C7_Witness ==
    /\ op = "updateTask"
    /\ Len(sent) = 1
    /\ DOMAIN args.kwargs = {"name", "status"}
    /\ sent[1].json = Obj(args.kwargs)

\* C8: createNoteToProject and createNoteToTask each send one POST whose body
\* has exactly text, userEmail and internalOnly with the caller's values,
\* internalOnly false when not given, to /projects/{id}/notes and
\* /tasks/{id}/notes.
C8_NoteIsPosted ==
    op \in {"createNoteToProject", "createNoteToTask"} =>
        /\ Len(sent) = 1
        /\ sent[1].method = "POST"
        /\ sent[1].json =
              Obj(("text" :> args.text) @@ ("userEmail" :> args.userEmail)
                  @@ ("internalOnly" :>
                        IF args.internalOnlyGiven THEN args.internalOnly
                        ELSE Bool(FALSE)))
        /\ sent[1].url =
              IF op = "createNoteToProject"
              THEN HOST \o "/projects/" \o Format(args.projectID) \o "/notes"
              ELSE HOST \o "/tasks/" \o Format(args.taskID) \o "/notes"

\* The eight members of the task-status enum.
TaskStatusEnum ==
    {"not_started", "working_on_it", "stuck", "sign_off", "done",
     "not_applicable", "not_scheduled", "scheduled"}

C10_OnePassOneRequest ==
    /\ events \in {<<>>, <<"validate">>,
                   <<"request", "response">>, <<"request", "failure">>,
                   <<"validate", "request", "response">>,
                   <<"validate", "request", "failure">>}
    /\ Len(sent) = Cardinality({i \in DOMAIN events : events[i] = "request"})
    /\ (Len(events) > 0 /\ events[Len(events)] = "failure") =>
          result.kind = "TransportError"
    /\ result.kind = "TransportError" =>
          Len(sent) = 1 /\ events[Len(events)] = "failure"
    /\ result.kind \in {"ValueError", "TypeError"} => sent = <<>>

C10_Witness ==
    /\ op = "updateTaskStatus"
    /\ events = <<"validate", "request", "failure">>
    /\ result.kind = "TransportError"
    /\ Len(sent) = 1

\* C11: after construction with token k every request of every call carries
\* the header Authorization: 'Bearer ' + k, and no operation changes the
\* stored token or header.
C11_BearerHeaderOnEveryRequest ==
    /\ [](/\ head = [Authorization |-> "Bearer " \o KEY]
          /\ \A i \in DOMAIN sent : sent[i].headers = [Authorization |-> "Bearer " \o KEY])
    /\ [][KEY' = KEY /\ head' = head]_vars

C11_Witness ==
    /\ op = "updateTask"
    /\ KEY = "k2"
    /\ Len(sent) = 1
    /\ sent[1].headers = [Authorization |-> "Bearer k2"]

\* A match of the whole string and nothing less: the pattern's text, from the
\* first character to the last.
WholeEmail(s) ==
    \E i \in 2..(Len(s) - 1) :
        /\ Char(s, i) = "@"
        /\ \A k \in (1..Len(s)) \ {i} : Char(s, k) \notin Whitespace

WholeDate(s) ==
    \E j \in 7..(Len(s) - 1) :
        /\ \A k \in 1..4 : Char(s, k) \in Digits
        /\ Char(s, 5) = "-"
        /\ MonthMatch(SubSeq(s, 6, j - 1))
        /\ Char(s, j) = "-"
        /\ DayMatch(SubSeq(s, j + 1, Len(s)))

RECURSIVE WholeDomainAt(_, _)
WholeDomainAt(s, i) ==
    \E j \in (i + 1)..Len(s) :
        /\ j - i <= MaxLabelLen
        /\ Char(s, j) = "."
        /\ \A k \in i..(j - 1) : Char(s, k) \in LabelChars
        /\ Char(s, i) # "-"
        /\ Char(s, j - 1) # "-"
        /\ \/ /\ Len(s) - j \in 2..6
              /\ \A k \in (j + 1)..Len(s) : Char(s, k) \in Letters
           \/ WholeDomainAt(s, j + 1)

WholeMatch(pattern, s) ==
    CASE pattern = EmailPattern -> WholeEmail(s)
      [] pattern = DatePattern -> WholeDate(s)
      [] pattern = DomainPattern -> WholeDomainAt(s, 1)

\* The strings of the latest call's keyword arguments that a pattern
\* constrains, each with its pattern: string properties, and the items of
\* array properties whose items carry a pattern.
PatternedStrings ==
    LET props == SchemaOf(op).properties
        bag == args.kwargs
    IN UNION {
          IF props[i][1] \notin DOMAIN bag THEN {}
          ELSE LET sub == props[i][2]
                   val == bag[props[i][1]]
               IN IF "pattern" \in DOMAIN sub /\ val.t = "str"
                  THEN {<<sub.pattern, val.v>>}
                  ELSE IF /\ "items" \in DOMAIN sub
                          /\ "pattern" \in DOMAIN sub.items
                          /\ val.t = "arr"
                  THEN {<<sub.items.pattern, val.v[n].v>> :
                          n \in {m \in DOMAIN val.v : val.v[m].t = "str"}}
                  ELSE {}
          : i \in DOMAIN props}

\* C12: every string pattern is applied as a whole-string match: a call one
\* of whose pattern-constrained values (a date, an email, the project domain)
\* is not matched from its first character to its last is rejected; a
\* matching prefix followed by other characters is never enough.
C12_PatternsMatchWholeString ==
    (op \in SchemaOps
     /\ \E ps \in PatternedStrings : ~WholeMatch(ps[1], ps[2])) =>
        /\ result = InvalidArguments
        /\ sent = <<>>

GetFilterOps == {"getProjects", "getTasks", "getTasksByProject"}

\* The filter fields the caller passed in the latest call, by name.
FilterFields ==
    IF op = "getProjects"
    THEN [k \in {"limit", "offset", "customerName", "projectName",
                 "projectManagerEmail"} |-> args[k]]
    ELSE args.kwargs

\* C13 as stated: in getProjects, getTasks and getTasksByProject a field left
\* absent or passed as None does not get the call rejected and is omitted
\* from the query, and every present non-null field appears in the query.
C13_NoneIsOmittedNeverRejected ==
    op \in GetFilterOps =>
        LET given == {k \in DOMAIN FilterFields : FilterFields[k].t # "none"}
            restValid == op = "getProjects"
                         \/ Len(Validate(SchemaOf(op), Restrict(args.kwargs, given))) = 0
        IN /\ restValid => Len(sent) = 1
           /\ Len(sent) = 1 => DOMAIN QueryOf(sent[1].params) = given

\* C13 as the code has it: getProjects always sends; it omits a name filter
\* (customerName, projectName, projectManagerEmail) that is absent, None or
\* an empty string, and a None limit or offset is dropped from the query.  In
\* getTasks and getTasksByProject an absent field is omitted, but a schema
\* field passed as None fails validation, so the call is rejected and nothing
\* is sent.  In a call that is sent, every field that is neither None nor
\* empty is in the query with the caller's value.
C13_FilterQuery ==
    /\ op = "getProjects" =>
          /\ Len(sent) = 1
          /\ LET query == QueryOf(sent[1].params)
             IN /\ \A k \in {"customerName", "projectName", "projectManagerEmail"} :
                      /\ k \in DOMAIN query <=> Truthy(args[k])
                      /\ k \in DOMAIN query => query[k] = <<args[k]>>
                /\ \A k \in {"limit", "offset"} :
                      /\ k \in DOMAIN query <=> args[k].t # "none"
                      /\ k \in DOMAIN query => query[k] = <<args[k]>>
    /\ op \in FilterOps =>
          /\ (\E k \in DOMAIN args.kwargs \cap PropNames(SchemaOf(op).properties) :
                 args.kwargs[k].t = "none") =>
                /\ result = InvalidArguments
                /\ sent = <<>>
          /\ Len(sent) = 1 =>
                LET query == QueryOf(sent[1].params)
                    kept == {k \in DOMAIN args.kwargs :
                                /\ args.kwargs[k].t # "none"
                                /\ ~(/\ args.kwargs[k].t = "arr"
                                     /\ Len(args.kwargs[k].v) = 0)}
                IN /\ DOMAIN query = kept
                   /\ \A k \in kept :
                         query[k] = IF args.kwargs[k].t = "arr"
                                    THEN args.kwargs[k].v ELSE <<args.kwargs[k]>>

C13_Witness ==
    /\ op = "getTasks"
    /\ args.kwargs = ("limit" :> None)
    /\ result.kind = "ValueError"
    /\ sent = <<>>

\* The operations whose endpoint has a path parameter, and the id each got.
PathOps ==
    {"getMilestone", "getMilestonesByProject", "getNote", "createNoteToProject",
     "getNotesFromProject", "createNoteToTask", "getProject", "addCusFieldToProject",
     "getTask", "getTasksByProject", "updateTask", "updateTaskStatus"}

IdOf ==
    CASE op = "getMilestone" -> args.milestoneID
      [] op = "getNote" -> args.noteID
      [] op \in {"createNoteToTask", "getTask", "updateTask", "updateTaskStatus"} ->
            args.taskID
      [] OTHER -> args.projectID

\* The endpoint of the latest operation with the text None where the id goes.
NonePath ==
    CASE op = "getMilestone" -> "/milestones/None"
      [] op = "getMilestonesByProject" -> "/projects/None/milestones"
      [] op = "getNote" -> "/notes/None"
      [] op \in {"createNoteToProject", "getNotesFromProject"} -> "/projects/None/notes"
      [] op = "createNoteToTask" -> "/tasks/None/notes"
      [] op = "getProject" -> "/projects/None"
      [] op = "addCusFieldToProject" -> "/projects/None/custom-fields"
      [] op = "getTasksByProject" -> "/projects/None/tasks"
      [] OTHER -> "/tasks/None"

\* C14 as stated: a call of an operation with a path parameter whose entity
\* id is None fails with a missing-path-parameter error and sends nothing.
C14_MissingIdIsRejected ==
    (op \in PathOps /\ IdOf = None) =>
        /\ result.kind = "MissingPathParameter"
        /\ sent = <<>>

\* C14 as the code has it: no operation checks its entity id.  With a None
\* id no call ends in a missing-path-parameter error; the id goes into the
\* path as the text None, the operations that validate nothing else
\* (getMilestone, getMilestonesByProject, getNote, getNotesFromProject,
\* getProject, addCusFieldToProject, getTask) always send their request to
\* that path, and getTasksByProject, updateTask and updateTaskStatus send it
\* exactly when their other arguments are accepted.
C14_NoneIdGoesIntoPath ==
    (op \in PathOps /\ IdOf = None) =>
        /\ result.kind # "MissingPathParameter"
        /\ \A i \in DOMAIN sent : sent[i].url = HOST \o NonePath
        /\ op \in {"getMilestone", "getMilestonesByProject", "getNote",
                   "getNotesFromProject", "getProject", "addCusFieldToProject",
                   "getTask"} => Len(sent) = 1
        /\ op \in {"getTasksByProject", "updateTask"} =>
              (Len(sent) = 1 <=> Len(CallErrors) = 0)
        /\ op = "updateTaskStatus" =>
              (Len(sent) = 1 <=>
                 (args.status.t = "str" /\ args.status.v \in TaskStatusEnum))

C14_Witness ==
    /\ op = "getTask"
    /\ args.taskID = None
    /\ Len(sent) = 1
    /\ sent[1].url = "https://h/v1/tasks/None"

\* The array fields of the two task filters.
ArrayFields ==
    {"assigneeEmail", "status", "projectStatus", "type", "responsibility", "priority"}

EmptyArrayFields(bag) == {k \in DOMAIN bag \cap ArrayFields : bag[k] = Arr(<<>>)}

\* Whether a task filter lets a bag through to its request.
Accepts(o, bag) ==
    IF o = "getTasks"
    THEN getTasks(Self, bag, "ok").sent # <<>>
    ELSE getTasksByProject(Self, Str("id1"), bag, "ok").sent # <<>>

\* C15 as stated: a bag with no empty array field is accepted by getTasks
\* exactly when getTasksByProject accepts it; a bag with an empty array field
\* is accepted by getTasks and rejected by getTasksByProject.
C15_FiltersDifferOnlyOnEmptyArrays ==
    op \in FilterOps =>
        LET bag == args.kwargs
        IN /\ (sent # <<>>) <=> Accepts(op, bag)
           /\ EmptyArrayFields(bag) = {} =>
                 (Accepts("getTasks", bag) <=> Accepts("getTasksByProject", bag))
           /\ EmptyArrayFields(bag) # {} =>
                 /\ Accepts("getTasks", bag)
                 /\ ~Accepts("getTasksByProject", bag)

\* C15 as the code has it: a bag with no empty array field is accepted by
\* getTasks exactly when getTasksByProject accepts it; a bag with an empty
\* array field is always rejected by getTasksByProject, and getTasks accepts
\* it exactly when it accepts the bag without its empty array fields.
C15_EmptyArraysOnlyPassGetTasks ==
    op \in FilterOps =>
        LET bag == args.kwargs
            rest == Restrict(bag, DOMAIN bag \ EmptyArrayFields(bag))
        IN /\ (sent # <<>>) <=> Accepts(op, bag)
           /\ EmptyArrayFields(bag) = {} =>
                 (Accepts("getTasks", bag) <=> Accepts("getTasksByProject", bag))
           /\ EmptyArrayFields(bag) # {} =>
                 /\ ~Accepts("getTasksByProject", bag)
                 /\ Accepts("getTasks", bag) <=> Accepts("getTasks", rest)
                 /\ Accepts("getTasks", rest) <=> Accepts("getTasksByProject", rest)

C15_Witness ==
    /\ op = "getTasks"
    /\ EmptyArrayFields(args.kwargs) # {}
    /\ "limit" \in DOMAIN args.kwargs
    /\ result = InvalidArguments
    /\ sent = <<>>

\* An empty array alone is what tells the two filters apart.
C15_WitnessAccepted ==
    /\ op = "getTasks"
    /\ EmptyArrayFields(args.kwargs) # {}
    /\ Len(sent) = 1

====
